---- MODULE Spec2Model ----
(***************************************************************************)
(* Two annotation passes over a parsed syntax tree:                        *)
(*   - the chaining inlay-hint pass  (crates/ide/src/inlay_hints/          *)
(*     chaining.rs, fn hints), appending InlayHints to a caller-owned Vec; *)
(*   - the enum glob-use lint (src/enum_glob_use.rs, check_mod/lint_item), *)
(*     emitting diagnostics through span_lint.                             *)
(* A behaviour is one unit of work handed to a pass: a single expression   *)
(* ("expr"), a method chain whose nodes are visited in preorder ("chain"), *)
(* or a module whose items are linted ("mod").                             *)
(***************************************************************************)
EXTENDS Integers, Sequences, FiniteSets, TLC

VARIABLES job, todo, chain, module, pos, acc0, acc, ret, diags

vars == <<job, todo, chain, module, pos, acc0, acc, ret, diags>>

(* ------------------------------ bounds -------------------------------- *)
\* longest sequence of sibling tokens following a single expression
MaxSibs == 3
\* largest number of `.` links in a chain
MaxDots == 2
\* largest number of items in a linted module
MaxItems == 2

(* --------------------------- Option<T> -------------------------------- *)
None == <<>>
Some(x) == <<x>>
IsSome(o) == o # <<>>
Unwrap(o) == o[1]

RECURSIVE SeqsUpTo(_, _)
SeqsUpTo(S, n) ==
    IF n = 0 THEN {<<>>}
    ELSE LET shorter == SeqsUpTo(S, n - 1)
         IN shorter \cup {Append(s, x) : s \in {t \in shorter : Len(t) = n - 1}, x \in S}

(* ------------------------- syntax elements ---------------------------- *)
\* A sibling element: a token (kind, whether its text contains '\n') or a node.
Tok(kind, nl) == [token |-> TRUE, kind |-> kind, nl |-> nl]
ChildNode(kind) == [token |-> FALSE, kind |-> kind, nl |-> FALSE]

WsNl == Tok("WHITESPACE", TRUE)
Ws == Tok("WHITESPACE", FALSE)
Comment == Tok("COMMENT", FALSE)
Dot == Tok("DOT", FALSE)
Semi == Tok("SEMICOLON", FALSE)
RParen == Tok("R_PAREN", FALSE)
NameRef == ChildNode("NAME_REF")
ArgList == ChildNode("ARG_LIST")

Tokens == {WsNl, Ws, Comment, Dot, Semi}
Siblings == Tokens \cup {NameRef}
Trivia == {WsNl, Ws, Comment}

ExprKinds == {"RecordExpr", "PathExpr", "MethodCallExpr"}

(* ------------------------------ types --------------------------------- *)
\* hir::Type as far as the pass inspects it: is_unknown(), as_adt(), fields().
TyUnknown == [unknown |-> TRUE, adt |-> "None", fields |-> 0, name |-> "{unknown}"]
TyUnit == [unknown |-> FALSE, adt |-> "Struct", fields |-> 0, name |-> "D"]
TyRecord == [unknown |-> FALSE, adt |-> "Struct", fields |-> 1, name |-> "A"]
TyEnum == [unknown |-> FALSE, adt |-> "Enum", fields |-> 0, name |-> "E"]

Types == {TyUnknown, TyUnit, TyRecord, TyEnum}
OptTypes == {None} \cup {Some(t) : t \in Types}

is_unknown(ty) == ty.unknown
as_adt(ty) == IF ty.adt = "None" THEN None ELSE Some([adt |-> ty.adt, fields |-> ty.fields])

(* ------------------------- semantic oracle ---------------------------- *)
\* sema.descend_node_into_attributes(expr): the nodes expr maps to in expansions
descend_node_into_attributes(sema, expr) == sema.descend
\* Vec::pop: the last element, if any
pop(v) == IF v = <<>> THEN None ELSE Some(v[Len(v)])
\* sema.type_of_expr(e): Option<TypeInfo>; its .original is the Type
type_of_expr(sema, e) == sema.type_of[e.id]
\* super::label_of_ty(sema, desc_expr, config, ty): Option<InlayHintLabel>
label_of_ty(sema, e, config, ty) ==
    IF sema.label_ok THEN Some([of |-> e.id, text |-> ty.name]) ELSE None

(* --------------------------- fn hints --------------------------------- *)
\* expr.syntax().siblings_with_tokens(Direction::Next): the node itself, then
\* every following sibling
siblings_with_tokens(expr) == <<ChildNode(expr.kind)>> \o expr.following

\* .filter_map(NodeOrToken::into_token)
into_token(els) == SelectSeq(els, LAMBDA el : el.token)

\* the .filter(|t| ...) closure: TRUE when the token is retained
RetainMutNoComment(t) ==
    IF t.kind = "WHITESPACE" /\ ~t.nl THEN FALSE ELSE TRUE
Retain(t) ==
    IF t.kind = "WHITESPACE" /\ ~t.nl THEN FALSE
    ELSE IF t.kind = "COMMENT" THEN FALSE
    ELSE TRUE

tokens(expr) == SelectSeq(into_token(siblings_with_tokens(expr)), Retain)

\* let mut next_next = tokens.next()?.kind();
\* while next_next == WHITESPACE { next_next = tokens.next()?.kind() }
\* ts: the tokens not yet pulled. None when the iterator runs dry (the `?`).
next_nextMutNoLoop(ts) ==
    IF ts = <<>> THEN None ELSE Some(Head(ts).kind)
RECURSIVE next_next(_)
next_next(ts) ==
    IF ts = <<>> THEN None
    ELSE IF Head(ts).kind = "WHITESPACE" THEN next_next(Tail(ts))
    ELSE Some(Head(ts).kind)

\* let desc_expr = descended.as_ref().unwrap_or(expr);
desc_expr(descended, expr) ==
    IF IsSome(descended) THEN Unwrap(descended) ELSE expr

\* matches!(expr, PathExpr) && ty.as_adt() is a Struct && its fields are empty
is_unit_struct_pathMutNever(expr, ty) == FALSE
is_unit_struct_pathMutAnyExpr(expr, ty) ==
    LET adt == as_adt(ty) IN
    IF IsSome(adt) /\ Unwrap(adt).adt = "Struct"
    THEN Unwrap(adt).fields = 0
    ELSE FALSE
is_unit_struct_path(expr, ty) ==
    IF expr.kind = "PathExpr"
    THEN LET adt == as_adt(ty) IN
         IF IsSome(adt) /\ Unwrap(adt).adt = "Struct"
         THEN Unwrap(adt).fields = 0
         ELSE FALSE
    ELSE FALSE

\* the InlayHint { range, kind, label, tooltip } literal
InlayHintMutDescRange(expr, de, label, file_id) ==
    [range |-> de.range,
     kind |-> "ChainingHint",
     label |-> label,
     tooltip |-> Some([tag |-> "HoverRanged", file_id |-> file_id, range |-> de.range])]
InlayHint(expr, de, label, file_id) ==
    [range |-> expr.range,
     kind |-> "ChainingHint",
     label |-> label,
     tooltip |-> Some([tag |-> "HoverRanged", file_id |-> file_id, range |-> expr.range])]

\* the body of `if next_next == T![.] { ... }`; de is desc_expr
PushHintMutPartial(a, sema, config, file_id, expr, de) ==
    LET oty == type_of_expr(sema, de) IN
    IF oty = None THEN [acc |-> a, ret |-> "None"]
    ELSE LET ty == Unwrap(oty) IN
         IF is_unit_struct_path(expr, ty) THEN [acc |-> a, ret |-> "None"]
         ELSE LET label == label_of_ty(sema, de, config, ty) IN
              IF label = None
              THEN [acc |-> Append(a, InlayHint(expr, de, [of |-> de.id, text |-> ""], file_id)),
                    ret |-> "None"]
              ELSE [acc |-> Append(a, InlayHint(expr, de, Unwrap(label), file_id)),
                    ret |-> "Some"]
PushHintMutPrepend(a, sema, config, file_id, expr, de) ==
    LET oty == type_of_expr(sema, de) IN
    IF oty = None THEN [acc |-> a, ret |-> "None"]
    ELSE LET ty == Unwrap(oty) IN
         IF is_unknown(ty) THEN [acc |-> a, ret |-> "None"]
         ELSE IF is_unit_struct_path(expr, ty) THEN [acc |-> a, ret |-> "None"]
         ELSE LET label == label_of_ty(sema, de, config, ty) IN
              IF label = None THEN [acc |-> a, ret |-> "None"]
              ELSE [acc |-> <<InlayHint(expr, de, Unwrap(label), file_id)>> \o a,
                    ret |-> "Some"]
PushHint(a, sema, config, file_id, expr, de) ==
    LET oty == type_of_expr(sema, de) IN
    IF oty = None THEN [acc |-> a, ret |-> "None"]
    ELSE LET ty == Unwrap(oty) IN
         IF is_unknown(ty) THEN [acc |-> a, ret |-> "None"]
         ELSE IF is_unit_struct_path(expr, ty) THEN [acc |-> a, ret |-> "None"]
         ELSE LET label == label_of_ty(sema, de, config, ty) IN
              IF label = None THEN [acc |-> a, ret |-> "None"]
              ELSE [acc |-> Append(a, InlayHint(expr, de, Unwrap(label), file_id)),
                    ret |-> "Some"]

\* the scan of the retained tokens, from `let next = tokens.next()?.kind()` on
ScanMutNoNewline(a, sema, config, file_id, expr, de) ==
    LET ts == tokens(expr) IN
    IF ts = <<>> THEN [acc |-> a, ret |-> "None"]
    ELSE LET nn == next_next(ts) IN
         IF nn = None THEN [acc |-> a, ret |-> "None"]
         ELSE IF Unwrap(nn) = "DOT"
              THEN PushHint(a, sema, config, file_id, expr, de)
              ELSE [acc |-> a, ret |-> "Some"]
ScanMutAnyToken(a, sema, config, file_id, expr, de) ==
    LET ts == tokens(expr) IN
    IF ts = <<>> THEN [acc |-> a, ret |-> "None"]
    ELSE IF Head(ts).kind = "WHITESPACE"
         THEN LET nn == next_next(Tail(ts)) IN
              IF nn = None THEN [acc |-> a, ret |-> "None"]
              ELSE PushHint(a, sema, config, file_id, expr, de)
         ELSE [acc |-> a, ret |-> "Some"]
Scan(a, sema, config, file_id, expr, de) ==
    LET ts == tokens(expr) IN
    IF ts = <<>> THEN [acc |-> a, ret |-> "None"]
    ELSE IF Head(ts).kind = "WHITESPACE"
         THEN LET nn == next_next(Tail(ts)) IN
              IF nn = None THEN [acc |-> a, ret |-> "None"]
              ELSE IF Unwrap(nn) = "DOT"
                   THEN PushHint(a, sema, config, file_id, expr, de)
                   ELSE [acc |-> a, ret |-> "Some"]
         ELSE [acc |-> a, ret |-> "Some"]

\* pub(super) fn hints(acc, sema, config, file_id, expr) -> Option<()>
\* the result holds the accumulator after the call and the value returned
hintsMutRecord(a, sema, config, file_id, expr) ==
    IF ~config.chaining_hints THEN [acc |-> a, ret |-> "None"]
    ELSE LET descended == pop(descend_node_into_attributes(sema, expr))
         IN Scan(a, sema, config, file_id, expr, desc_expr(descended, expr))
hints(a, sema, config, file_id, expr) ==
    IF ~config.chaining_hints THEN [acc |-> a, ret |-> "None"]
    ELSE IF expr.kind = "RecordExpr" THEN [acc |-> a, ret |-> "None"]
    ELSE LET descended == pop(descend_node_into_attributes(sema, expr))
         IN Scan(a, sema, config, file_id, expr, desc_expr(descended, expr))

(* ---------------------- enum glob-use lint ----------------------------- *)
\* The compiled world the lint queries: the local item table (tcx.map) and the
\* external metadata store (sess.cstore), keyed by DefId.
LocalDefs == {"l_enum", "l_struct", "l_variant"}
ExternDefs == {"x_enum", "x_struct", "x_root", "x_static"}
DefIds == LocalDefs \cup ExternDefs

\* cx.tcx.map.as_local_node_id(def_id)
as_local_node_id(cx, def_id) ==
    IF def_id \in cx.local THEN Some(def_id) ELSE None
\* cx.tcx.map.find(node_id): Option<Node>
find(cx, node_id) == cx.map[node_id]
\* cx.sess().cstore.relative_def_path(def_id).data
relative_def_path(cx, def_id) == cx.def_path[def_id]
\* cx.sess().cstore.item_type(&cx.tcx, def_id).ty.sty
item_type(cx, def_id) == cx.sty[def_id]
\* Vec::last
last(v) == IF v = <<>> THEN None ELSE Some(v[Len(v)])

World ==
    [local |-> LocalDefs,
     map |-> [d \in LocalDefs |->
                 CASE d = "l_enum" -> Some([node |-> "NodeItem", item |-> "ItemEnum"])
                   [] d = "l_struct" -> Some([node |-> "NodeItem", item |-> "ItemStruct"])
                   [] d = "l_variant" -> Some([node |-> "NodeVariant", item |-> "None"])],
     def_path |-> [d \in ExternDefs |->
                 CASE d = "x_enum" -> <<"TypeNs", "TypeNs">>
                   [] d = "x_struct" -> <<"TypeNs", "TypeNs">>
                   [] d = "x_root" -> <<>>
                   [] d = "x_static" -> <<"TypeNs", "ValueNs">>],
     sty |-> [d \in ExternDefs |->
                 CASE d = "x_enum" -> "TyEnum"
                   [] d = "x_struct" -> "TyStruct"
                   [] d = "x_root" -> "TyStruct"
                   [] d = "x_static" -> "TyEnum"]]

\* utils::span_lint(cx, lint, span, msg): one diagnostic appended to the sink
span_lint(sink, lint, span, msg) ==
    Append(sink, [lint |-> lint, span |-> span, msg |-> msg])

EnumGlobMsg == "don't use glob imports for enum variants"

\* the `else` branch: the definition lives in another crate
lint_externMutNoNs(sink, cx, item, def) ==
    LET dp == relative_def_path(cx, def.def_id)
        dpa == last(dp)
    IN IF dpa = None THEN sink
       ELSE IF item_type(cx, def.def_id) = "TyEnum"
            THEN span_lint(sink, "ENUM_GLOB_USE", item.span, EnumGlobMsg)
            ELSE sink
lint_extern(sink, cx, item, def) ==
    LET dp == relative_def_path(cx, def.def_id)
        dpa == last(dp)
    IN IF dpa = None THEN sink
       ELSE IF Unwrap(dpa) = "TypeNs"
            THEN IF item_type(cx, def.def_id) = "TyEnum"
                 THEN span_lint(sink, "ENUM_GLOB_USE", item.span, EnumGlobMsg)
                 ELSE sink
            ELSE sink

\* the `if let Some(node_id)` branch: the definition lives in this crate
lint_localMutAnyItem(sink, cx, item, node_id) ==
    LET n == find(cx, node_id) IN
    IF n = None THEN sink
    ELSE IF Unwrap(n).node = "NodeItem"
         THEN span_lint(sink, "ENUM_GLOB_USE", item.span, EnumGlobMsg)
         ELSE sink
lint_local(sink, cx, item, node_id) ==
    LET n == find(cx, node_id) IN
    IF n = None THEN sink
    ELSE IF Unwrap(n).node = "NodeItem"
         THEN IF Unwrap(n).item = "ItemEnum"
              THEN span_lint(sink, "ENUM_GLOB_USE", item.span, EnumGlobMsg)
              ELSE sink
         ELSE sink

lint_itemMutNoVis(sink, cx, item) ==
    IF item.node.kind = "ItemUse"
    THEN IF item.node.view_path = "ViewPathGlob"
         THEN LET def == cx.def_map[item.id] IN
              IF def = None THEN sink
              ELSE LET node_id == as_local_node_id(cx, Unwrap(def).def_id) IN
                   IF IsSome(node_id)
                   THEN lint_local(sink, cx, item, Unwrap(node_id))
                   ELSE lint_extern(sink, cx, item, Unwrap(def))
         ELSE sink
    ELSE sink
lint_item(sink, cx, item) ==
    IF item.vis = "Public" THEN sink
    ELSE IF item.node.kind = "ItemUse"
    THEN IF item.node.view_path = "ViewPathGlob"
         THEN LET def == cx.def_map[item.id] IN
              IF def = None THEN sink
              ELSE LET node_id == as_local_node_id(cx, Unwrap(def).def_id) IN
                   IF IsSome(node_id)
                   THEN lint_local(sink, cx, item, Unwrap(node_id))
                   ELSE lint_extern(sink, cx, item, Unwrap(def))
         ELSE sink
    ELSE sink

\* check_mod: for item in &m.item_ids { self.lint_item(cx, cx.krate.item(item.id)) }
RECURSIVE check_mod_from(_, _, _, _)
check_mod_from(sink, cx, m, k) ==
    IF k > Len(m.item_ids) THEN sink
    ELSE check_mod_from(lint_item(sink, cx, cx.krate[m.item_ids[k]]), cx, m, k + 1)
check_mod(sink, cx, m) == check_mod_from(sink, cx, m, 1)

(* ------------------------- units of work ------------------------------ *)
\* hints already pushed by an earlier pass of the same run
PriorHint ==
    [range |-> <<1, 2>>, kind |-> "TypeHint", label |-> [of |-> 9, text |-> "i32"],
     tooltip |-> None]

IsTrivia(el) == el.token /\ el.kind \in {"WHITESPACE", "COMMENT"}

\* a single expression (node 1) with the siblings that follow it
ExprNode(kind, following) ==
    [id |-> 1, kind |-> kind, range |-> <<4, 9>>, following |-> following]
\* the node it maps to inside an attribute-macro expansion (node 0); expansions
\* carry no trivia
DescNode(kind, following) ==
    [id |-> 0, kind |-> kind, range |-> <<40, 45>>,
     following |-> SelectSeq(following, LAMBDA el : ~IsTrivia(el))]

Visit(enabled, sema, expr) ==
    [config |-> [chaining_hints |-> enabled], file_id |-> 0, sema |-> sema, expr |-> expr]

SibSeqs == SeqsUpTo(Siblings, MaxSibs)

\* the oracle for a single expression: d says whether expansion maps it to a
\* descended node, t1 is the type of the expression, t0 that of the descended node
ExprSema(k, f, d, t1, t0, l) ==
    IF d
    THEN [descend |-> <<DescNode(k, f)>>,
          type_of |-> [i \in {0, 1} |-> IF i = 1 THEN t1 ELSE t0],
          label_ok |-> l]
    ELSE [descend |-> <<>>, type_of |-> [i \in {1} |-> t1], label_ok |-> l]

\* A chain  head .m() .m() ...  with n = Len(gaps) dots: gaps[i] is the trivia
\* between link i and the `.` after it, tys[i] the inferred type of link i
\* (link 1 is the head, link n+1 the whole chain).
Gaps == { <<WsNl>>, <<>>, <<Ws, Comment>>, <<Ws, Comment, WsNl, Comment, WsNl>> }
HeadKinds == {"PathExpr", "RecordExpr", "CallExpr"}
ChainTypes == {Some(TyUnknown), Some(TyUnit), Some(TyRecord)}

MkChain(head, enabled, gaps, tys) ==
    [head |-> head, enabled |-> enabled, gaps |-> gaps, tys |-> tys]
NoChain == [head |-> "PathExpr", enabled |-> FALSE, gaps |-> <<>>, tys |-> <<>>]

Dots(c) == Len(c.gaps)

\* end offset of link i: the head is one character wide, every trivia token one,
\* every `.name()` four
RECURSIVE LinkEnd(_, _)
LinkEnd(c, i) == IF i = 1 THEN 1 ELSE LinkEnd(c, i - 1) + Len(c.gaps[i - 1]) + 4
LinkRange(c, i) == <<0, LinkEnd(c, i)>>

LinkNode(c, i) ==
    [id |-> i,
     kind |-> IF i = 1 THEN c.head ELSE "MethodCallExpr",
     range |-> LinkRange(c, i),
     following |-> IF i <= Dots(c) THEN c.gaps[i] \o <<Dot, NameRef, ArgList>> ELSE <<Semi>>]
\* the callee path and the argument of a call-expression head  A(C)
CalleeNode(c) ==
    [id |-> Dots(c) + 2, kind |-> "PathExpr", range |-> <<0, 0>>, following |-> <<ArgList>>]
ArgNode(c) ==
    [id |-> Dots(c) + 3, kind |-> "PathExpr", range |-> <<1, 1>>, following |-> <<RParen>>]

ChainSema(c) ==
    [descend |-> <<>>,
     type_of |-> [i \in 1..(Dots(c) + 3) |-> IF i <= Dots(c) THEN c.tys[i] ELSE Some(TyEnum)],
     label_ok |-> TRUE]

\* the nodes of the chain in preorder: the whole chain first, the head last,
\* then the head's own children
Traversal(c) ==
    [k \in 1..(Dots(c) + 1) |-> Visit(c.enabled, ChainSema(c), LinkNode(c, Dots(c) + 2 - k))]
    \o (IF c.head = "CallExpr"
        THEN <<Visit(c.enabled, ChainSema(c), CalleeNode(c)),
               Visit(c.enabled, ChainSema(c), ArgNode(c))>>
        ELSE <<>>)

\* a module of `use` and other items, with the resolver's def_map
ItemNodes ==
    { [kind |-> "ItemUse", view_path |-> "ViewPathGlob"],
      [kind |-> "ItemUse", view_path |-> "ViewPathSimple"],
      [kind |-> "ItemFn", view_path |-> "None"] }
ItemShapes == [vis : {"Public", "Inherited"}, node : ItemNodes]
OptDefs == {None} \cup {Some([def_id |-> d]) : d \in DefIds}
ItemSpan(k) == <<10 * k, 10 * k + 5>>

Crate(shapes, defs) ==
    [krate |-> [k \in 1..Len(shapes) |->
                   [id |-> k, vis |-> shapes[k].vis, node |-> shapes[k].node,
                    span |-> ItemSpan(k)]],
     def_map |-> defs,
     local |-> World.local, map |-> World.map,
     def_path |-> World.def_path, sty |-> World.sty]

MkModule(shapes, defs) ==
    [m |-> [item_ids |-> [k \in 1..Len(shapes) |-> k]], cx |-> Crate(shapes, defs)]
NoModule == [m |-> [item_ids |-> <<>>], cx |-> Crate(<<>>, <<>>)]

(* --------------------------- state machine ---------------------------- *)
Init ==
    /\ pos = 1
    /\ ret = "-"
    /\ diags = <<>>
    /\ acc0 \in {<<>>, <<PriorHint>>}
    /\ acc = acc0
    /\ \/ /\ job = "expr"
          /\ \E c \in BOOLEAN, l \in BOOLEAN, k \in ExprKinds, f \in SibSeqs,
                d \in BOOLEAN, t1 \in OptTypes, t0 \in OptTypes :
                /\ d \/ t0 = None
                /\ todo = <<Visit(c, ExprSema(k, f, d, t1, t0, l), ExprNode(k, f))>>
          /\ chain = NoChain
          /\ module = NoModule
       \/ /\ job = "chain"
          /\ \E n \in 1..MaxDots : \E h \in HeadKinds, e \in BOOLEAN,
                   g \in [1..n -> Gaps], t \in [1..n -> ChainTypes] :
                chain = MkChain(h, e, g, t)
          /\ todo = Traversal(chain)
          /\ module = NoModule
       \/ /\ job = "mod"
          /\ \E n \in 1..MaxItems : \E sh \in [1..n -> ItemShapes], df \in [1..n -> OptDefs] :
                module = MkModule(sh, df)
          /\ todo = <<>>
          /\ chain = NoChain

\* one call of hints() on the next node of the traversal
VisitExpr ==
    /\ job \in {"expr", "chain"}
    /\ pos <= Len(todo)
    /\ LET v == todo[pos]
           r == hints(acc, v.sema, v.config, v.file_id, v.expr)
       IN /\ acc' = r.acc
          /\ ret' = r.ret
    /\ pos' = pos + 1
    /\ UNCHANGED <<job, todo, chain, module, acc0, diags>>

\* one call of check_mod() on the module
CheckMod ==
    /\ job = "mod"
    /\ pos = 1
    /\ diags' = check_mod(diags, module.cx, module.m)
    /\ pos' = 2
    /\ UNCHANGED <<job, todo, chain, module, acc0, acc, ret>>

Next == VisitExpr \/ CheckMod

Spec == Init /\ [][Next]_vars

Done == pos > Len(todo) /\ (job = "mod" => pos = 2)

(* ----------------------------- properties ----------------------------- *)
\* what the passes have appended since the run began
NewHints == SubSeq(acc, Len(acc0) + 1, Len(acc))
\* the single expression of an "expr" run, and the node the oracle is asked about
TheVisit == todo[1]
TheExpr == TheVisit.expr
QueryNode ==
    IF TheVisit.sema.descend = <<>> THEN TheExpr
    ELSE TheVisit.sema.descend[Len(TheVisit.sema.descend)]
QueryType == TheVisit.sema.type_of[QueryNode.id]
ExprDone == job = "expr" /\ pos = 2
ChainDone == job = "chain" /\ pos > Len(todo)
ModDone == job = "mod" /\ pos = 2

\* a token that is neither a comment nor same-line whitespace
Significant(el) ==
    el.token /\ el.kind # "COMMENT" /\ ~(el.kind = "WHITESPACE" /\ ~el.nl)
SignificantOf(f) == SelectSeq(f, Significant)
\* the siblings read: line break(s), then `.`
Continues(f) ==
    LET sg == SignificantOf(f) IN
    \E j \in 2..Len(sg) : sg[j] = Dot /\ \A i \in 1..(j - 1) : sg[i] = WsNl
HasLineBreak(gap) == \E i \in 1..Len(gap) : gap[i] = WsNl
KnownType(ot) == ot # None /\ ~ot[1].unknown
UnitStruct(ot) == ot # None /\ ot[1].adt = "Struct" /\ ot[1].fields = 0

HeadSuppressed(c) ==
    \/ c.head = "RecordExpr"
    \/ c.head = "PathExpr" /\ UnitStruct(c.tys[1])
\* the links that are to be annotated, outermost first
LinksHinted(c) ==
    LET n == Dots(c)
        all == [k \in 1..n |-> n + 1 - k]
    IN IF HeadSuppressed(c) THEN SubSeq(all, 1, n - 1) ELSE all

\* C1: in a chain with a line break before every `.` (and none elsewhere), visited
\* with the pass enabled and every link typed, every link but the last gets a
\* hint, anchored exactly at the link's text range: n hints for n dots unless
\* the head is suppressed.
C1_HintPerLink ==
    (/\ ChainDone
     /\ chain.enabled
     /\ \A i \in 1..Dots(chain) : HasLineBreak(chain.gaps[i]) /\ KnownType(chain.tys[i]))
    => /\ SubSeq(acc, 1, Len(acc0)) = acc0
       /\ Len(NewHints) = Len(LinksHinted(chain))
       /\ \A k \in 1..Len(NewHints) :
             /\ NewHints[k].range = LinkRange(chain, LinksHinted(chain)[k])
             /\ NewHints[k].kind = "ChainingHint"
       /\ (~HeadSuppressed(chain) => Len(NewHints) = Dots(chain))
C1_Witness ==
    /\ ChainDone
    /\ chain.enabled
    /\ chain.head = "CallExpr"
    /\ Dots(chain) = 2
    /\ chain.gaps = <<(<<WsNl>>), (<<Ws, Comment, WsNl, Comment, WsNl>>)>>
    /\ \A i \in 1..2 : KnownType(chain.tys[i])
    /\ Len(NewHints) = 2
    /\ NewHints[1].range = LinkRange(chain, 2)
    /\ NewHints[2].range = LinkRange(chain, 1)

\* C2: a chain written on one line gets no hint; and whenever the first retained
\* token after an expression is not line-break whitespace (a bare `.` included),
\* the accumulator is left unchanged.
C2_NoHintOnOneLine ==
    /\ (job = "chain" /\ \A i \in 1..Dots(chain) : ~HasLineBreak(chain.gaps[i]))
          => acc = acc0
    /\ (job = "expr" /\ (SignificantOf(TheExpr.following) = <<>>
                          \/ SignificantOf(TheExpr.following)[1] # WsNl))
          => acc = acc0
C2_Witness ==
    /\ ChainDone
    /\ chain.enabled
    /\ Dots(chain) = 2
    /\ chain.gaps = <<(<<>>), (<<Ws, Comment>>)>>
    /\ \A i \in 1..2 : chain.tys[i] = Some(TyRecord)
    /\ chain.head = "CallExpr"
    /\ acc = acc0

\* C3: the outcome on a sibling sequence is the outcome on the same sequence with
\* every comment and every same-line whitespace token removed.
C3_CommentTolerance ==
    ExprDone =>
        LET v == TheVisit
            bare == [v.expr EXCEPT !.following =
                        SelectSeq(@, LAMBDA el : ~(el = Comment \/ el = Ws))]
        IN [acc |-> acc, ret |-> ret] = hints(acc0, v.sema, v.config, v.file_id, bare)
C3_Witness ==
    /\ ExprDone
    /\ TheExpr.following = <<Comment, WsNl, Dot>>
    /\ Len(acc) = Len(acc0) + 1
    /\ acc[Len(acc)].range = TheExpr.range

\* C4: a record-construction expression never receives a chaining hint, whatever
\* follows it, whatever its type and whatever the config.
C4_NoHintOnRecordExpr ==
    /\ (job = "expr" /\ TheExpr.kind = "RecordExpr") => acc = acc0
    /\ (job = "chain" /\ chain.head = "RecordExpr")
          => \A k \in 1..Len(NewHints) : NewHints[k].range # LinkRange(chain, 1)
C4_Witness ==
    /\ ExprDone
    /\ TheExpr.kind = "RecordExpr"
    /\ TheExpr.following = <<WsNl, Dot>>
    /\ TheVisit.config.chaining_hints
    /\ TheVisit.sema.label_ok
    /\ QueryType = Some(TyRecord)
    /\ acc = acc0

\* C5: a bare path whose inferred type is a zero-field struct gets no hint even
\* before a line break and `.`; with a struct type of at least one field it gets
\* one (the pass being enabled and the label built).
C5_UnitStructPath ==
    (ExprDone /\ TheExpr.kind = "PathExpr" /\ Continues(TheExpr.following))
    => /\ UnitStruct(QueryType) => acc = acc0
       /\ (/\ KnownType(QueryType)
           /\ QueryType[1].adt = "Struct"
           /\ QueryType[1].fields > 0
           /\ TheVisit.config.chaining_hints
           /\ TheVisit.sema.label_ok)
          => /\ Len(acc) = Len(acc0) + 1
             /\ acc[Len(acc)].range = TheExpr.range
C5_Witness ==
    /\ ExprDone
    /\ TheExpr.kind = "PathExpr"
    /\ TheExpr.following = <<WsNl, Dot>>
    /\ QueryType = Some(TyUnit)
    /\ TheVisit.config.chaining_hints
    /\ TheVisit.sema.label_ok
    /\ acc = acc0

\* the linted module's items and what the resolver recorded for each
Items == module.cx.krate
DefOf(k) == module.cx.def_map[k]
\* the diagnostics reported at item k
DiagsAt(k) == SelectSeq(diags, LAMBDA d : d.span = Items[k].span)
PrivateGlob(k) ==
    /\ Items[k].vis = "Inherited"
    /\ Items[k].node = [kind |-> "ItemUse", view_path |-> "ViewPathGlob"]
\* the definitions of the world that are enums
EnumDefs == {"l_enum", "x_enum"}
ResolvesToEnum(k) == DefOf(k) # None /\ DefOf(k)[1].def_id \in EnumDefs
TheDiag(k) ==
    [lint |-> "ENUM_GLOB_USE", span |-> Items[k].span,
     msg |-> "don't use glob imports for enum variants"]

\* C6: a non-public glob `use` whose target resolves to an enum is reported once,
\* at the span of the whole `use` item; a public glob `use` is never reported.
C6_PrivateEnumGlobLinted ==
    ModDone =>
        \A k \in 1..Len(Items) :
            /\ (PrivateGlob(k) /\ ResolvesToEnum(k)) => DiagsAt(k) = <<TheDiag(k)>>
            /\ Items[k].vis = "Public" => DiagsAt(k) = <<>>
C6_Witness ==
    /\ ModDone
    /\ Len(Items) = 2
    /\ PrivateGlob(1) /\ DefOf(1) = Some([def_id |-> "x_enum"])
    /\ Items[2].vis = "Public" /\ Items[2].node.view_path = "ViewPathGlob"
    /\ DefOf(2) = Some([def_id |-> "x_enum"])
    /\ diags = <<TheDiag(1)>>

\* C7: nothing is reported for an item that is not a `use`, for a `use` that is
\* not a glob, or for a glob whose resolved target is not an enum.
C7_OnlyEnumGlobsLinted ==
    ModDone =>
        \A k \in 1..Len(Items) :
            (\/ Items[k].node.kind # "ItemUse"
             \/ Items[k].node.view_path # "ViewPathGlob"
             \/ (DefOf(k) # None /\ ~ResolvesToEnum(k)))
            => DiagsAt(k) = <<>>
C7_Witness ==
    /\ ModDone
    /\ Len(Items) = 2
    /\ PrivateGlob(1) /\ DefOf(1) = Some([def_id |-> "x_static"])
    /\ PrivateGlob(2) /\ DefOf(2) = Some([def_id |-> "l_struct"])
    /\ diags = <<>>

\* the same logical entity seen through the other resolution path
Counterpart(d) ==
    CASE d = "l_enum" -> "x_enum"
      [] d = "x_enum" -> "l_enum"
      [] d = "l_struct" -> "x_struct"
      [] d = "x_struct" -> "l_struct"
      [] OTHER -> d
\* a diagnostic without its position
Unplaced(ds) == [i \in 1..Len(ds) |-> [lint |-> ds[i].lint, msg |-> ds[i].msg]]

\* C8: two non-public glob imports that differ only in whether the definition is
\* local or external get the same outcome: the same lint and message, each at its
\* own item's span, emitted exactly when the definition is an enum.
C8_DualPathAgreement ==
    ModDone =>
        \A j \in 1..Len(Items) : \A k \in 1..Len(Items) :
            (/\ PrivateGlob(j) /\ PrivateGlob(k)
             /\ DefOf(j) # None /\ DefOf(k) # None
             /\ DefOf(j)[1].def_id \in LocalDefs
             /\ DefOf(k)[1].def_id \in ExternDefs
             /\ DefOf(k)[1].def_id = Counterpart(DefOf(j)[1].def_id))
            => /\ Unplaced(DiagsAt(j)) = Unplaced(DiagsAt(k))
               /\ DiagsAt(j) # <<>> <=> ResolvesToEnum(j)
               /\ DiagsAt(j) # <<>> => DiagsAt(j) = <<TheDiag(j)>>
               /\ DiagsAt(k) # <<>> => DiagsAt(k) = <<TheDiag(k)>>
C8_Witness ==
    /\ ModDone
    /\ Len(Items) = 2
    /\ PrivateGlob(1) /\ DefOf(1) = Some([def_id |-> "l_enum"])
    /\ PrivateGlob(2) /\ DefOf(2) = Some([def_id |-> "x_enum"])
    /\ diags = <<TheDiag(1), TheDiag(2)>>

\* C9: the type asked for, the zero-field check and the label come from the
\* descended node when expansion yields one (from the expression itself
\* otherwise), while the hint's range and its tooltip range are those of the
\* original expression.
C9_QueryVersusReport ==
    ExprDone =>
        /\ Len(acc) > Len(acc0) =>
              /\ acc = Append(acc0,
                    [range |-> TheExpr.range,
                     kind |-> "ChainingHint",
                     label |-> [of |-> QueryNode.id, text |-> QueryType[1].name],
                     tooltip |-> Some([tag |-> "HoverRanged", file_id |-> TheVisit.file_id,
                                       range |-> TheExpr.range])])
        /\ (/\ TheVisit.config.chaining_hints
            /\ TheVisit.sema.label_ok
            /\ TheExpr.kind # "RecordExpr"
            /\ Continues(TheExpr.following))
           => (Len(acc) > Len(acc0)
                 <=> /\ KnownType(QueryType)
                     /\ ~(TheExpr.kind = "PathExpr" /\ UnitStruct(QueryType)))
C9_Witness ==
    /\ ExprDone
    /\ Len(TheVisit.sema.descend) = 1
    /\ TheExpr.kind = "PathExpr"
    /\ TheVisit.sema.type_of[TheExpr.id] = Some(TyUnit)
    /\ QueryType = Some(TyRecord)
    /\ Len(acc) = Len(acc0) + 1
    /\ acc[Len(acc)].range = TheExpr.range
    /\ acc[Len(acc)].range # QueryNode.range
    /\ acc[Len(acc)].label.of = QueryNode.id

\* C10: absence is a no-op. No type, an unknown type or no label: nothing is
\* appended. No def_map entry, a local node that is not an item, or an empty
\* external def path: nothing is reported.
C10_AbsenceIsNoOp ==
    /\ (job = "expr" /\ (QueryType = None \/ ~KnownType(QueryType) \/ ~TheVisit.sema.label_ok))
          => acc = acc0
    /\ ModDone =>
          \A k \in 1..Len(Items) :
             (\/ DefOf(k) = None
              \/ LET d == DefOf(k)[1].def_id IN
                 \/ d \in module.cx.local
                    /\ (module.cx.map[d] = None \/ module.cx.map[d][1].node # "NodeItem")
                 \/ d \notin module.cx.local /\ module.cx.def_path[d] = <<>>)
             => DiagsAt(k) = <<>>
C10_Witness ==
    /\ ExprDone
    /\ TheVisit.config.chaining_hints
    /\ TheExpr.kind = "MethodCallExpr"
    /\ TheExpr.following = <<WsNl, Dot>>
    /\ QueryType = Some(TyRecord)
    /\ ~TheVisit.sema.label_ok
    /\ acc = acc0
    /\ ret = "None"

\* C11: one call of hints() appends at most one hint and one call of lint_item
\* reports at most one diagnostic; what the accumulator held before the call
\* stays, in the same order, and anything new is put at its end.
C11_AtMostOneAppended ==
    [][/\ \/ acc' = acc
          \/ /\ Len(acc') = Len(acc) + 1
             /\ SubSeq(acc', 1, Len(acc)) = acc
       /\ SubSeq(diags', 1, Len(diags)) = diags
       /\ Len(diags') <= Len(diags) + Len(module.m.item_ids)
       /\ \A i \in 1..(Len(diags') - 1) : diags'[i].span[1] < diags'[i + 1].span[1]
       /\ \A i \in 1..Len(diags') :
             \E k \in 1..Len(module.m.item_ids) : diags'[i].span = module.cx.krate[k].span
      ]_vars
C11_Witness ==
    /\ ChainDone
    /\ acc0 = <<PriorHint>>
    /\ Len(acc) = 3
    /\ acc[1] = PriorHint
    /\ acc[2].range = LinkRange(chain, 2)
    /\ acc[3].range = LinkRange(chain, 1)

\* C12: the zero-field suppression applies to bare paths only: a method-call
\* link whose type is a zero-field struct is annotated before a line break and
\* `.`, while the bare path of the same type at the head of the chain is not.
C12_UnitStructOnlyForPaths ==
    /\ (/\ ChainDone
        /\ chain.enabled
        /\ chain.head = "PathExpr"
        /\ \A i \in 1..Dots(chain) :
              HasLineBreak(chain.gaps[i]) /\ chain.tys[i] = Some(TyUnit))
       => /\ Len(NewHints) = Dots(chain) - 1
          /\ \A k \in 1..Len(NewHints) :
                NewHints[k].range = LinkRange(chain, Dots(chain) + 1 - k)
          /\ \A k \in 1..Len(NewHints) : NewHints[k].range # LinkRange(chain, 1)
    /\ (/\ ExprDone
        /\ TheVisit.config.chaining_hints
        /\ TheVisit.sema.label_ok
        /\ Continues(TheExpr.following)
        /\ UnitStruct(QueryType))
       => /\ TheExpr.kind = "MethodCallExpr" =>
                Len(acc) = Len(acc0) + 1 /\ acc[Len(acc)].range = TheExpr.range
          /\ TheExpr.kind = "PathExpr" => acc = acc0
C12_Witness ==
    /\ ChainDone
    /\ chain.enabled
    /\ chain.head = "PathExpr"
    /\ Dots(chain) = 2
    /\ \A i \in 1..2 : HasLineBreak(chain.gaps[i]) /\ chain.tys[i] = Some(TyUnit)
    /\ Len(NewHints) = 1
    /\ NewHints[1].range = LinkRange(chain, 2)
    /\ NewHints[1].label.text = "D"

\* index of the first retained token that is not whitespace, 0 when there is none
FirstNonWs(sg) ==
    IF \E i \in 1..Len(sg) : sg[i].kind # "WHITESPACE"
    THEN CHOOSE i \in 1..Len(sg) :
            /\ sg[i].kind # "WHITESPACE"
            /\ \A j \in 1..(i - 1) : sg[j].kind = "WHITESPACE"
    ELSE 0

\* C13: once the first retained token is line-break whitespace, further
\* whitespace is skipped and a hint is possible only if the first other token is
\* `.`; any other token, or running out of tokens first, ends the scan with no
\* hint (running out returns None, another token returns Some).
C13_ContinuationLookahead ==
    (/\ ExprDone
     /\ SignificantOf(TheExpr.following) # <<>>
     /\ SignificantOf(TheExpr.following)[1] = WsNl)
    => LET sg == SignificantOf(TheExpr.following)
           j == FirstNonWs(sg)
           live == TheVisit.config.chaining_hints /\ TheExpr.kind # "RecordExpr"
       IN /\ j = 0 => acc = acc0 /\ ret = "None"
          /\ (j # 0 /\ sg[j] # Dot) => acc = acc0 /\ (live => ret = "Some")
          /\ Len(acc) > Len(acc0) => j # 0 /\ sg[j] = Dot
          /\ (/\ j # 0 /\ sg[j] = Dot
              /\ live
              /\ TheVisit.sema.label_ok
              /\ KnownType(QueryType)
              /\ ~(TheExpr.kind = "PathExpr" /\ UnitStruct(QueryType)))
             => Len(acc) = Len(acc0) + 1 /\ ret = "Some"
C13_Witness ==
    /\ ExprDone
    /\ TheExpr.following = <<WsNl, WsNl, Dot>>
    /\ TheExpr.kind = "MethodCallExpr"
    /\ Len(acc) = Len(acc0) + 1
    /\ ret = "Some"

====
